---- MODULE Spec2Model ----
(***************************************************************************)
(* Model of mermaidgen.ts: the pipeline main() that scans the server tree, *)
(* then the client tree, adds the external actors and renders the Mermaid  *)
(* text.                                                                   *)
(*                                                                         *)
(* Text is modelled as a sequence of tokens.  A token is one character     *)
(* where substring search can look inside it (routes, endpoints, the fixed *)
(* label decorations) and one \w+ word where it cannot (class names: they  *)
(* hold no '/', and every searched needle starts with '/').                *)
(* A source file is modelled by what the regular expressions of the        *)
(* extractors capture from it.                                             *)
(***************************************************************************)
EXTENDS Integers, Sequences, FiniteSets

VARIABLES serverFiles, clientFiles, pc, si, ci,
          components, interactions, mermaidCode, outputFile

vars == <<serverFiles, clientFiles, pc, si, ci,
          components, interactions, mermaidCode, outputFile>>

\* ------------------------------------------------------------------ bounds
MaxServerFiles == 2
MaxClientFiles == 2

\* ------------------------------------------------------------ text helpers
Range(s) == {s[k] : k \in DOMAIN s}

\* String.prototype.includes on token sequences
Includes(hay, needle) ==
  \E k \in 0..(Len(hay) - Len(needle)) :
     \A j \in 1..Len(needle) : hay[k + j] = needle[j]

\* s.split('/')[0]
FirstSegment(s) ==
  LET cut == {k \in DOMAIN s : s[k] = "/"}
  IN  IF cut = {} THEN s
      ELSE SubSeq(s, 1, (CHOOSE k \in cut : \A m \in cut : k <= m) - 1)

\* segs.join('/')
RECURSIVE JoinSlash(_)
JoinSlash(segs) ==
  IF Len(segs) = 0 THEN <<>>
  ELSE IF Len(segs) = 1 THEN <<segs[1]>>
  ELSE <<segs[1], "/">> \o JoinSlash(Tail(segs))

ApiPrefix   == <<"/", "a", "p", "i">>
SmallOpen   == <<"<", "b", "r", ">", "<", "s", "m", "a", "l", "l", ">">>
SmallClose  == <<"<", "/", "s", "m", "a", "l", "l", ">">>

\* ------------------------------------------------------------ configuration
serverDir == <<"server", "src">>
clientDir == <<"client", "app">>

PrismaId   == <<"PrismaService">>
UserId     == <<"User">>
DatabaseId == <<"Database">>

\* ------------------------------------------------------ the component map
\* A JavaScript Map: a sequence of entries in insertion order, keys unique.
Has(comps, id) == \E k \in DOMAIN comps : comps[k].id = id

Get(comps, id) == comps[CHOOSE k \in DOMAIN comps : comps[k].id = id]

\* a set that never overwrites: a second entry under the same key
SetComponent_Append(comps, c) == Append(comps, c)

\* Map.prototype.set: overwrite in place, or append
SetComponent(comps, c) ==
  IF Has(comps, c.id)
  THEN [k \in DOMAIN comps |-> IF comps[k].id = c.id THEN c ELSE comps[k]]
  ELSE Append(comps, c)

Component(id, type, label, filePath, subgraph) ==
  [id |-> id, type |-> type, label |-> label,
   filePath |-> filePath, subgraph |-> subgraph]

Interaction(from, to, label, isAsync) ==
  [from |-> from, to |-> to, label |-> label, isAsync |-> isAsync]

\* ------------------------------------------------------------ source files
\* What the regular expressions of analyzeServerFile capture from a server
\* file: className is classNameMatch[1], route is controllerMatch[1], params
\* is constructorMatch[1].split(',') with, for each piece, whether depMatch
\* matched and depMatch[1]; mentionsPrisma is content.includes('PrismaService').
ServerFile(name, hasClass, className, hasRoute, route, svc, gw, hasCtor, params, prisma) ==
  [path |-> serverDir \o <<name>>,
   classNameMatch |-> hasClass, className |-> className,
   controllerMatch |-> hasRoute, route |-> route,
   serviceMatch |-> svc, gatewayMatch |-> gw,
   constructorMatch |-> hasCtor, params |-> params,
   mentionsPrisma |-> prisma]

Typed(t) == [depMatch |-> TRUE, type |-> t]
Untyped  == [depMatch |-> FALSE, type |-> ""]

ServerFileUniverse ==
  { \* @Controller('/o') export class OrdersController { constructor(private readonly svc: OrdersService) {} }
    ServerFile("orders.controller.ts", TRUE, "OrdersController", TRUE, <<"/", "o">>,
               FALSE, FALSE, TRUE, <<Typed("OrdersService")>>, FALSE),
    \* @Injectable() export class OrdersService { constructor(private prisma: PrismaService) {} }
    ServerFile("orders.service.ts", TRUE, "OrdersService", FALSE, <<>>,
               TRUE, FALSE, TRUE, <<Typed("PrismaService")>>, TRUE),
    \* @Injectable() export class PrismaService {}
    ServerFile("prisma.service.ts", TRUE, "PrismaService", FALSE, <<>>,
               TRUE, FALSE, FALSE, <<>>, TRUE),
    \* @WebSocketGateway() export class EventsGateway {}
    ServerFile("events.gateway.ts", TRUE, "EventsGateway", FALSE, <<>>,
               FALSE, TRUE, FALSE, <<>>, FALSE),
    \* @WebSocketGateway() export class ChatGateway { constructor() {} }
    ServerFile("chat.gateway.ts", TRUE, "ChatGateway", FALSE, <<>>,
               FALSE, TRUE, TRUE, <<Untyped>>, FALSE),
    \* @Injectable() @WebSocketGateway() export class OrdersController {}
    ServerFile("orders.v2.ts", TRUE, "OrdersController", FALSE, <<>>,
               TRUE, TRUE, FALSE, <<>>, FALSE),
    \* @Injectable() @Controller('/o2') export class User { constructor(cfg, private readonly svc: OrdersService) {} }
    ServerFile("user.controller.ts", TRUE, "User", TRUE, <<"/", "o", "2">>,
               TRUE, FALSE, TRUE, <<Untyped, Typed("OrdersService")>>, FALSE),
    \* export class Database { constructor(private readonly svc: OrdersService) {} }
    ServerFile("database.ts", TRUE, "Database", FALSE, <<>>,
               FALSE, FALSE, TRUE, <<Typed("OrdersService")>>, FALSE),
    \* @Injectable() class Helper { constructor(private prisma: PrismaService) {} }
    ServerFile("helper.ts", FALSE, "", FALSE, <<>>,
               TRUE, FALSE, TRUE, <<Typed("PrismaService")>>, TRUE),
    \* export class OrdersService { constructor(private a: EventsGateway, private b: OrdersController) {} }
    ServerFile("orders.service.mock.ts", TRUE, "OrdersService", FALSE, <<>>,
               FALSE, FALSE, TRUE, <<Typed("EventsGateway"), Typed("OrdersController")>>, FALSE) }

\* What analyzeClientFile reads of a client file: its path below clientDir,
\* match[1] of every fetch(`${apiUrl}/api/...`) in order, and
\* content.includes('useSocket()').
ClientFile(rel, fetches, usesSocket) ==
  [path |-> clientDir \o rel, fetches |-> fetches, usesSocket |-> usesSocket]

ClientFileUniverse ==
  { \* client/app/page.tsx
    ClientFile(<<"page.tsx">>, <<>>, TRUE),
    \* client/app/dashboard/page.tsx
    ClientFile(<<"dashboard", "page.tsx">>,
               << <<"o", "/", "1">>, <<"x">> >>, TRUE),
    \* client/app/orders/page.tsx
    ClientFile(<<"orders", "page.tsx">>, << <<"o", "2">> >>, FALSE) }

\* getProjectFiles returns every path once
FileLists(universe, max) ==
  UNION { { s \in [1..n -> universe] : \A a, b \in 1..n : a # b => s[a] # s[b] }
          : n \in 0..max }

\* ---------------------------------------------------- server extraction
RECURSIVE InjectedDeps(_, _)
InjectedDeps(id, params) ==
  IF params = <<>> THEN <<>>
  ELSE (IF Head(params).depMatch
        THEN <<Interaction(id, <<Head(params).type>>, <<"inyecta">>, FALSE)>>
        ELSE <<>>)
       \o InjectedDeps(id, Tail(params))

ControllerLabel(id, route) ==
  id \o SmallOpen \o ApiPrefix \o route \o SmallClose

GatewayLabel(id) == id \o SmallOpen \o <<"WebSocket">> \o SmallClose

\* the gateway marker tested before the injectable marker
ClassifyServerFile_GatewayFirst(file, comps) ==
  LET id == <<file.className>>
  IN  IF file.controllerMatch
      THEN SetComponent(comps, Component(id, "Controller",
                             ControllerLabel(id, file.route), file.path, "Server"))
      ELSE IF file.gatewayMatch
      THEN SetComponent(comps, Component(id, "Gateway",
                             GatewayLabel(id), file.path, "Server"))
      ELSE IF file.serviceMatch
      THEN SetComponent(comps, Component(id, "Service", id, file.path, "Server"))
      ELSE comps

\* lines 75-82: the component of the class, by the first marker that matched
ClassifyServerFile(file, comps) ==
  LET id == <<file.className>>
  IN  IF file.controllerMatch
      THEN SetComponent(comps, Component(id, "Controller",
                             ControllerLabel(id, file.route), file.path, "Server"))
      ELSE IF file.serviceMatch
      THEN SetComponent(comps, Component(id, "Service", id, file.path, "Server"))
      ELSE IF file.gatewayMatch
      THEN SetComponent(comps, Component(id, "Gateway",
                             GatewayLabel(id), file.path, "Server"))
      ELSE comps

\* lines 84-100: the interactions pushed for the class
EmittedByServerFile(file) ==
  LET id == <<file.className>>
  IN  (IF file.constructorMatch THEN InjectedDeps(id, file.params) ELSE <<>>)
      \o (IF file.mentionsPrisma
          THEN <<Interaction(id, PrismaId, <<"usa">>, FALSE)>> ELSE <<>>)

\* a class whose component is already in the map is not analysed again
analyzeServerFile_SkipKnown(file, comps, inters) ==
  IF ~file.classNameMatch \/ Has(comps, <<file.className>>)
  THEN [components |-> comps, interactions |-> inters]
  ELSE [components |-> ClassifyServerFile(file, comps),
        interactions |-> inters \o EmittedByServerFile(file)]

\* the 'usa' interaction pushed only when PrismaService is already a component
analyzeServerFile_PrismaIfKnown(file, comps, inters) ==
  IF ~file.classNameMatch THEN [components |-> comps, interactions |-> inters]
  ELSE [components |-> ClassifyServerFile(file, comps),
        interactions |->
          inters \o SelectSeq(EmittedByServerFile(file),
                              LAMBDA i : i.label # <<"usa">> \/ Has(comps, PrismaId))]

analyzeServerFile(file, comps, inters) ==
  IF ~file.classNameMatch THEN [components |-> comps, interactions |-> inters]
  ELSE [components |-> ClassifyServerFile(file, comps),
        interactions |-> inters \o EmittedByServerFile(file)]

\* ---------------------------------------------------- client extraction
\* the route compared for equality instead of searched for
findControllerByRoute_Exact(route, comps) ==
  LET hits == {k \in DOMAIN comps :
                 /\ comps[k].type = "Controller"
                 /\ Includes(comps[k].label,
                             ApiPrefix \o <<"/">> \o route \o SmallClose)}
  IN  IF hits = {} THEN <<>>
      ELSE <<comps[CHOOSE k \in hits : \A m \in hits : k <= m]>>

findControllerByRoute(route, comps) ==
  LET hits == {k \in DOMAIN comps :
                 /\ comps[k].type = "Controller"
                 /\ Includes(comps[k].label, ApiPrefix \o <<"/">> \o route)}
  IN  IF hits = {} THEN <<>>
      ELSE <<comps[CHOOSE k \in hits : \A m \in hits : k <= m]>>

findComponentByType(type, comps) ==
  LET hits == {k \in DOMAIN comps : comps[k].type = type}
  IN  IF hits = {} THEN <<>>
      ELSE <<comps[CHOOSE k \in hits : \A m \in hits : k <= m]>>

\* path.relative(clientDir, filePath).replace(/\\/g, '/').replace(/\/page\.tsx$/, '')
RelativePath(filePath) ==
  LET rel == JoinSlash(SubSeq(filePath, Len(clientDir) + 1, Len(filePath)))
      n   == Len(rel)
  IN  IF n >= 2 /\ rel[n - 1] = "/" /\ rel[n] = "page.tsx"
      THEN SubSeq(rel, 1, n - 2) ELSE rel

PageId(filePath) ==
  LET rel == RelativePath(filePath)
  IN  <<"Page(">> \o (IF rel = <<>> THEN <<"/">> ELSE rel) \o <<")">>

RECURSIVE FetchInteractions(_, _, _)
FetchInteractions(id, fetches, comps) ==
  IF fetches = <<>> THEN <<>>
  ELSE LET endpoint == FirstSegment(Head(fetches))
           target   == findControllerByRoute(endpoint, comps)
       IN  (IF target # <<>>
            THEN <<Interaction(id, target[1].id,
                               <<"GET ">> \o ApiPrefix \o <<"/">> \o endpoint, FALSE)>>
            ELSE <<>>)
           \o FetchInteractions(id, Tail(fetches), comps)

analyzeClientFile(file, comps, inters) ==
  LET id     == PageId(file.path)
      label  == <<"/">> \o RelativePath(file.path)
      comps2 == SetComponent(comps, Component(id, "ClientPage", label, file.path, "Client"))
      gateway == findComponentByType("Gateway", comps2)
      socket == IF file.usesSocket /\ gateway # <<>>
                THEN <<Interaction(id, gateway[1].id, <<"conecta a">>, TRUE)>>
                ELSE <<>>
  IN  [components |-> comps2,
       interactions |-> inters \o FetchInteractions(id, file.fetches, comps2) \o socket]

\* ------------------------------------------------------ external components
\* the actors added only when their identifiers are free
addExternalComponents_IfAbsent(comps) ==
  LET c1 == IF Has(comps, UserId) THEN comps
            ELSE Append(comps, Component(UserId, "User", <<"Usuario">>, <<>>, "User"))
      c2 == IF Has(c1, DatabaseId) THEN c1
            ELSE Append(c1, Component(DatabaseId, "Database", <<"Base de Datos">>,
                                      <<>>, "Database"))
  IN  [components |-> c2, threw |-> Has(c2, PrismaId)]

\* components.set('User', ...); components.set('Database', ...); then the
\* reference to `interactions`, a name that is not in scope of this function:
\* evaluating it throws a ReferenceError before anything is pushed.
addExternalComponents(comps) ==
  LET c1 == SetComponent(comps, Component(UserId, "User", <<"Usuario">>, <<>>, "User"))
      c2 == SetComponent(c1, Component(DatabaseId, "Database", <<"Base de Datos">>,
                                       <<>>, "Database"))
  IN  [components |-> c2, threw |-> Has(c2, PrismaId)]

\* ------------------------------------------------------------------ renderer
SubgraphNames == <<"User", "Client", "Server", "Database">>

RECURSIVE Filter(_, _)
\* [...components.values()].filter(c => c.subgraph === name)
Filter(comps, name) ==
  IF comps = <<>> THEN <<>>
  ELSE (IF Head(comps).subgraph = name THEN <<Head(comps)>> ELSE <<>>)
       \o Filter(Tail(comps), name)

NodeLines(members) ==
  [k \in DOMAIN members |->
     [kind |-> "node", id |-> members[k].id, label |-> members[k].label]]

RECURSIVE SubgraphBlocks(_, _)
SubgraphBlocks(names, comps) ==
  IF names = <<>> THEN <<>>
  ELSE LET members == Filter(comps, Head(names))
       IN  (IF Len(members) > 0
            THEN <<[kind |-> "subgraph", name |-> Head(names)]>>
                 \o NodeLines(members) \o <<[kind |-> "end"]>>
            ELSE <<>>)
           \o SubgraphBlocks(Tail(names), comps)

\* only the source looked up
EdgeRendered_SourceOnly(inter, comps) == Has(comps, inter.from)

\* if (fromNode && toNode)
EdgeRendered(inter, comps) == Has(comps, inter.from) /\ Has(comps, inter.to)

RECURSIVE InteractionLines(_, _)
InteractionLines(inters, comps) ==
  IF inters = <<>> THEN <<>>
  ELSE (IF EdgeRendered(Head(inters), comps)
        THEN <<[kind |-> "edge", from |-> Head(inters).from,
                arrow |-> IF Head(inters).isAsync THEN "-.->" ELSE "-->",
                label |-> Head(inters).label, to |-> Head(inters).to]>>
        ELSE <<>>)
       \o InteractionLines(Tail(inters), comps)

RECURSIVE NavigationLines(_)
NavigationLines(comps) ==
  IF comps = <<>> THEN <<>>
  ELSE (IF Head(comps).type = "ClientPage"
        THEN <<[kind |-> "edge", from |-> UserId, arrow |-> "-->",
                label |-> <<"navega a">>, to |-> Head(comps).id]>>
        ELSE <<>>)
       \o NavigationLines(Tail(comps))

ClassLine(comps, subgraph, class) ==
  LET members == Filter(comps, subgraph)
  IN  [kind |-> "class", ids |-> [k \in DOMAIN members |-> members[k].id],
       name |-> class]

generateMermaidCode(comps, inters) ==
  <<[kind |-> "graph"]>>
  \o SubgraphBlocks(SubgraphNames, comps)
  \o <<[kind |-> "comment", text |-> "Interacciones"]>>
  \o InteractionLines(inters, comps)
  \o NavigationLines(comps)
  \o <<[kind |-> "comment", text |-> "Estilos"],
       [kind |-> "classDef", name |-> "client"],
       [kind |-> "classDef", name |-> "server"],
       [kind |-> "classDef", name |-> "db"],
       [kind |-> "classDef", name |-> "user"],
       ClassLine(comps, "Client", "client"),
       ClassLine(comps, "Server", "server"),
       ClassLine(comps, "Database", "db"),
       ClassLine(comps, "User", "user")>>

\* ---------------------------------------------------------------------- main
\* The model main() builds from two file lists, as one value: the server
\* loop, the client loop, then addExternalComponents.
RECURSIVE ExtractServer(_, _)
ExtractServer(files, model) ==
  IF files = <<>> THEN model
  ELSE ExtractServer(Tail(files),
                     analyzeServerFile(Head(files), model.components, model.interactions))

RECURSIVE ExtractClient(_, _)
ExtractClient(files, model) ==
  IF files = <<>> THEN model
  ELSE ExtractClient(Tail(files),
                     analyzeClientFile(Head(files), model.components, model.interactions))

FinalModel(sFiles, cFiles) ==
  LET empty     == [components |-> <<>>, interactions |-> <<>>]
      extracted == ExtractClient(cFiles, ExtractServer(sFiles, empty))
  IN  [components |-> addExternalComponents(extracted.components).components,
       interactions |-> extracted.interactions]

Init ==
  /\ serverFiles \in FileLists(ServerFileUniverse, MaxServerFiles)
  /\ clientFiles \in FileLists(ClientFileUniverse, MaxClientFiles)
  /\ pc = "server"
  /\ si = 1
  /\ ci = 1
  /\ components = <<>>
  /\ interactions = <<>>
  /\ mermaidCode = <<>>
  /\ outputFile = <<>>

\* the loop left after its first iteration
ServerStep_Break ==
  /\ pc = "server"
  /\ si <= Len(serverFiles)
  /\ LET r == analyzeServerFile(serverFiles[si], components, interactions)
     IN  /\ components' = r.components
         /\ interactions' = r.interactions
  /\ si' = si + 1
  /\ pc' = "client"
  /\ UNCHANGED <<serverFiles, clientFiles, ci, mermaidCode, outputFile>>

\* one iteration of the loop over serverFiles
ServerStep ==
  /\ pc = "server"
  /\ si <= Len(serverFiles)
  /\ LET r == analyzeServerFile(serverFiles[si], components, interactions)
     IN  /\ components' = r.components
         /\ interactions' = r.interactions
  /\ si' = si + 1
  /\ UNCHANGED <<serverFiles, clientFiles, pc, ci, mermaidCode, outputFile>>

\* the server loop is over: getProjectFiles(clientDir)
ServerDone ==
  /\ pc = "server"
  /\ si > Len(serverFiles)
  /\ pc' = "client"
  /\ UNCHANGED <<serverFiles, clientFiles, si, ci, components, interactions,
                 mermaidCode, outputFile>>

\* one iteration of the loop over clientFiles
ClientStep ==
  /\ pc = "client"
  /\ ci <= Len(clientFiles)
  /\ LET r == analyzeClientFile(clientFiles[ci], components, interactions)
     IN  /\ components' = r.components
         /\ interactions' = r.interactions
  /\ ci' = ci + 1
  /\ UNCHANGED <<serverFiles, clientFiles, pc, si, mermaidCode, outputFile>>

ClientDone ==
  /\ pc = "client"
  /\ ci > Len(clientFiles)
  /\ pc' = "external"
  /\ UNCHANGED <<serverFiles, clientFiles, si, ci, components, interactions,
                 mermaidCode, outputFile>>

\* addExternalComponents(components); a throw rejects main()
Synthesize ==
  /\ pc = "external"
  /\ LET r == addExternalComponents(components)
     IN  /\ components' = r.components
         /\ pc' = IF r.threw THEN "failed" ELSE "render"
  /\ UNCHANGED <<serverFiles, clientFiles, si, ci, interactions,
                 mermaidCode, outputFile>>

Render ==
  /\ pc = "render"
  /\ mermaidCode' = generateMermaidCode(components, interactions)
  /\ pc' = "write"
  /\ UNCHANGED <<serverFiles, clientFiles, si, ci, components, interactions,
                 outputFile>>

\* fs.promises.writeFile(architecture.md, markdownContent)
WriteOutput ==
  /\ pc = "write"
  /\ outputFile' = <<[name |-> "architecture.md",
                      title |-> "Diagrama de Arquitectura del Proyecto",
                      mermaid |-> mermaidCode]>>
  /\ pc' = "done"
  /\ UNCHANGED <<serverFiles, clientFiles, si, ci, components, interactions,
                 mermaidCode>>

Next ==
  \/ ServerStep
  \/ ServerDone
  \/ ClientStep
  \/ ClientDone
  \/ Synthesize
  \/ Render
  \/ WriteOutput

Spec == Init /\ [][Next]_vars

\* ------------------------------------------------------ reading the output
IsPage(id) == id[1] = "Page("

NodeLinesOf(out, id) == {k \in DOMAIN out : out[k].kind = "node" /\ out[k].id = id}

EdgeLinesOf(out) == {k \in DOMAIN out : out[k].kind = "edge"}

\* the subgraph block that line k of the text lies in, <<>> outside any block
BlockOf(out, k) ==
  LET opens == {j \in 1..(k - 1) : out[j].kind = "subgraph"}
      last  == CHOOSE j \in opens : \A m \in opens : m <= j
  IN  IF opens = {} THEN <<>>
      ELSE IF \E e \in (last + 1)..(k - 1) : out[e].kind = "end" THEN <<>>
      ELSE <<out[last].name>>

\* declared as a component in some cluster block, before line k
DeclaredBefore(out, id, k) ==
  \E n \in NodeLinesOf(out, id) : n < k /\ BlockOf(out, n) # <<>>

ClassOfSubgraph(name) ==
  CASE name = "Client" -> "client"
    [] name = "Server" -> "server"
    [] name = "Database" -> "db"
    [] name = "User" -> "user"

\* the places where an identifier is listed in a class-assignment line
ClassListings(out, id) ==
  UNION { { <<k, j>> : j \in {j \in DOMAIN out[k].ids : out[k].ids[j] = id} } :
          k \in {k \in DOMAIN out : out[k].kind = "class"} }

Rendered == pc \in {"write", "done"}

Dangling(inter) == ~Has(components, inter.from) \/ ~Has(components, inter.to)

\* ------------------------------------------------------------------ claims

\* C1: in a complete run every edge line of the rendered text, from the
\* interaction log or an implicit navigation edge, has its source and its
\* target declared as a component in a cluster block earlier in the text, and
\* an interaction with an endpoint missing from the final component map
\* yields no edge line (and the run still completes).
C1_EdgesHaveDeclaredEndpoints ==
  Rendered =>
    /\ \A k \in EdgeLinesOf(mermaidCode) :
         /\ DeclaredBefore(mermaidCode, mermaidCode[k].from, k)
         /\ DeclaredBefore(mermaidCode, mermaidCode[k].to, k)
    /\ \A i \in Range(interactions) :
         Dangling(i) =>
           ~\E k \in EdgeLinesOf(mermaidCode) :
               /\ mermaidCode[k].from = i.from
               /\ mermaidCode[k].to = i.to

C1_Witness ==
  /\ pc = "done"
  /\ \E i \in Range(interactions) : Dangling(i)
  /\ \E k \in EdgeLinesOf(mermaidCode) : mermaidCode[k].label = <<"inyecta">>
  /\ \E k \in EdgeLinesOf(mermaidCode) : mermaidCode[k].label = <<"navega a">>

\* C7: every component of the final model is declared in exactly one cluster
\* block of the rendered text, the block of its cluster, and is listed in
\* exactly one class-assignment line, the line of that cluster.
C7_OneBlockOneClassLine ==
  Rendered =>
    \A c \in Range(components) :
      /\ Cardinality(NodeLinesOf(mermaidCode, c.id)) = 1
      /\ \A n \in NodeLinesOf(mermaidCode, c.id) :
           BlockOf(mermaidCode, n) = <<c.subgraph>>
      /\ Cardinality(ClassListings(mermaidCode, c.id)) = 1
      /\ \A p \in ClassListings(mermaidCode, c.id) :
           mermaidCode[p[1]].name = ClassOfSubgraph(c.subgraph)

\* two server files produced the same identifier, one is named like an actor
C7_Witness ==
  /\ pc = "done"
  /\ \E a, b \in DOMAIN serverFiles :
       /\ a # b
       /\ serverFiles[a].className = "OrdersController"
       /\ serverFiles[b].className = "OrdersController"
  /\ Len(clientFiles) = MaxClientFiles

\* C8: once the run reaches rendering the model holds User (kind User,
\* cluster User) and Database (kind Database, cluster Database), both with an
\* empty file path, whatever the files declared, and the rendered text
\* declares both.
C8_ExternalActorsPresent ==
  /\ pc \in {"render", "write", "done"} =>
       /\ Has(components, UserId)
       /\ Get(components, UserId).type = "User"
       /\ Get(components, UserId).subgraph = "User"
       /\ Get(components, UserId).filePath = <<>>
       /\ Has(components, DatabaseId)
       /\ Get(components, DatabaseId).type = "Database"
       /\ Get(components, DatabaseId).subgraph = "Database"
       /\ Get(components, DatabaseId).filePath = <<>>
  /\ Rendered =>
       /\ \E n \in NodeLinesOf(mermaidCode, UserId) :
            BlockOf(mermaidCode, n) = <<"User">>
       /\ \E n \in NodeLinesOf(mermaidCode, DatabaseId) :
            BlockOf(mermaidCode, n) = <<"Database">>

\* server classes named User and Database went through the run
C8_Witness ==
  /\ pc = "done"
  /\ \E a, b \in DOMAIN serverFiles :
       /\ serverFiles[a].className = "User" /\ serverFiles[a].controllerMatch
       /\ serverFiles[b].className = "Database"

\* the number of entries of a log that equal x
Count(log, x) == Cardinality({k \in DOMAIN log : log[k] = x})

Queries == Interaction(PrismaId, DatabaseId, <<"consulta">>, FALSE)

\* C2: when the PrismaService component is in the model as the external
\* components are added, exactly one interaction PrismaService -> Database
\* labelled 'consulta' is appended to the log of the run and the output holds
\* its edge; without that component none is appended.
C2_QueriesEdgeAppended ==
  /\ pc \in {"render", "write", "done", "failed"} =>
       Count(interactions, Queries) = IF Has(components, PrismaId) THEN 1 ELSE 0
  /\ (Rendered /\ Has(components, PrismaId)) =>
       \E k \in EdgeLinesOf(mermaidCode) :
          /\ mermaidCode[k].from = PrismaId
          /\ mermaidCode[k].to = DatabaseId
          /\ mermaidCode[k].label = <<"consulta">>

\* C3: whatever the two file lists hold, no step of the run raises, and the
\* finished run has handed a complete document to the output step.
C3_RunCompletes ==
  /\ pc # "failed"
  /\ pc = "done" =>
       /\ Len(outputFile) = 1
       /\ outputFile[1].mermaid = mermaidCode
       /\ mermaidCode[1].kind = "graph"

\* ClientStep has taken place
ClientScan == pc = "client" /\ ci' = ci + 1

ControllersAndGateways(comps) ==
  {c \in Range(comps) : c.type \in {"Controller", "Gateway"}}

\* C6: the steps of a run come in the order server extractions, client
\* extractions, external actors, rendering; while client files are scanned
\* every server file has been extracted, no server extraction follows, and
\* no Controller or Gateway enters the model once the server phase is over,
\* so each one of the final model was there at every client scan.
C6_ServerBeforeClient ==
  [][ /\ pc' # pc =>
           <<pc, pc'>> \in { <<"server", "client">>, <<"client", "external">>,
                             <<"external", "render">>, <<"external", "failed">>,
                             <<"render", "write">>, <<"write", "done">> }
      /\ si' # si => pc = "server"
      /\ pc = "client" => si = Len(serverFiles) + 1
      /\ ci' # ci => pc = "client"
      /\ pc # "server" =>
           ControllersAndGateways(components') \subseteq ControllersAndGateways(components)
    ]_vars

\* a client file is about to be scanned with a controller and a gateway of
\* two server files in the map
C6_Witness ==
  /\ pc = "client"
  /\ ci <= Len(clientFiles)
  /\ Len(serverFiles) = MaxServerFiles
  /\ \E c \in Range(components) : c.type = "Controller"
  /\ \E c \in Range(components) : c.type = "Gateway"

GetLabel(endpoint) == <<"GET ">> \o ApiPrefix \o <<"/">> \o endpoint

\* C9: a client file is scanned once: its scan appends an interaction for a
\* fetch to /api/<fragment> exactly when a Controller whose label embeds
\* /api/<fragment> is in the map at that moment, and an asynchronous
\* interaction exactly when the file holds the hookup call and a Gateway is in
\* the map at that moment; no other step ever appends an interaction of a page.
C9_ClientSinglePass ==
  [][ LET old == Len(interactions)
          new == SubSeq(interactions', old + 1, Len(interactions'))
      IN  /\ Len(interactions') >= old
          /\ SubSeq(interactions', 1, old) = interactions
          /\ ClientScan =>
               LET file == clientFiles[ci]
                   id   == PageId(file.path)
               IN  /\ \A j \in DOMAIN file.fetches :
                        LET e == FirstSegment(file.fetches[j])
                        IN  (\E k \in DOMAIN new :
                                /\ new[k].from = id
                                /\ new[k].label = GetLabel(e)
                                /\ ~new[k].isAsync)
                            <=>
                            (\E c \in Range(components) :
                                /\ c.type = "Controller"
                                /\ Includes(c.label, ApiPrefix \o <<"/">> \o e))
                   /\ (\E k \in DOMAIN new : new[k].from = id /\ new[k].isAsync)
                      <=>
                      (/\ file.usesSocket
                       /\ \E c \in Range(components) : c.type = "Gateway")
                   /\ \A k \in DOMAIN new : new[k].from = id
          /\ ~ClientScan => \A k \in DOMAIN new : ~IsPage(new[k].from)
    ]_vars

\* the dashboard page went through a run in which its fetch to /api/o/1 found
\* a controller and its fetch to /api/x found none, with no gateway
C9_Witness ==
  /\ pc = "done"
  /\ \E k \in DOMAIN clientFiles : clientFiles[k].path = clientDir \o <<"dashboard", "page.tsx">>
  /\ \E i \in Range(interactions) :
       i.from = <<"Page(", "dashboard", ")">> /\ i.label = GetLabel(<<"o">>)
  /\ ~\E i \in Range(interactions) : i.label = GetLabel(<<"x">>)
  /\ ~\E i \in Range(interactions) : i.isAsync

\* ---------------------------------------------------- reordering, repetition
Permutations(s) ==
  { [k \in DOMAIN s |-> s[f[k]]] :
      f \in {g \in [DOMAIN s -> DOMAIN s] : \A a, b \in DOMAIN s : a # b => g[a] # g[b]} }

SameMultiset(a, b) ==
  \A x \in Range(a) \cup Range(b) : Count(a, x) = Count(b, x)

\* identifier, kind, label and cluster of every component
Described(comps) ==
  {[id |-> c.id, type |-> c.type, label |-> c.label, subgraph |-> c.subgraph] :
      c \in Range(comps)}

Ids(comps) == {c.id : c \in Range(comps)}

ByServer(log) == SelectSeq(log, LAMBDA i : ~IsPage(i.from))

\* a page's interactions without their targets
ByClientUntargeted(log) ==
  LET mine == SelectSeq(log, LAMBDA i : IsPage(i.from))
  IN  [k \in DOMAIN mine |->
         [from |-> mine[k].from, label |-> mine[k].label, isAsync |-> mine[k].isAsync]]

DistinctClassNames(files) ==
  \A a, b \in DOMAIN files :
     (a # b /\ files[a].classNameMatch /\ files[b].classNameMatch)
       => files[a].className # files[b].className

Synthesized == pc \in {"render", "write", "done", "failed"}

\* C4 as stated: every permutation of the server list gives a final model
\* with the same components (identifier, kind, label, cluster) and the same
\* multiset of interactions, those of the client pages included.
C4_AsStated ==
  Synthesized =>
    \A p \in Permutations(serverFiles) :
       LET m == FinalModel(p, clientFiles)
       IN  /\ Described(m.components) = Described(components)
           /\ SameMultiset(m.interactions, interactions)

\* C4 amended: every permutation of the server list gives the same set of
\* component identifiers and the same multiset of interactions emitted by
\* server files; when the server files export pairwise distinct class names
\* it also gives the same components and the same multiset of page
\* interactions up to their targets.
C4_Amended ==
  Synthesized =>
    \A p \in Permutations(serverFiles) :
       LET m == FinalModel(p, clientFiles)
       IN  /\ Ids(m.components) = Ids(components)
           /\ SameMultiset(ByServer(m.interactions), ByServer(interactions))
           /\ DistinctClassNames(serverFiles) =>
                /\ Described(m.components) = Described(components)
                /\ SameMultiset(ByClientUntargeted(m.interactions),
                                ByClientUntargeted(interactions))

\* two server files with distinct classes and a page with interactions went
\* through extraction and synthesis
C4_Witness ==
  /\ Synthesized
  /\ Len(serverFiles) = MaxServerFiles
  /\ DistinctClassNames(serverFiles)
  /\ ByServer(interactions) # <<>>
  /\ ByClientUntargeted(interactions) # <<>>

Once(f)  == analyzeServerFile(f, components, interactions)
Twice(f) == analyzeServerFile(f, Once(f).components, Once(f).interactions)

\* C5 as stated: in every state of the model, analysing a server file twice
\* in succession leaves the component map and the interaction log as
\* analysing it once does.
C5_AsStated ==
  \A f \in ServerFileUniverse : Twice(f) = Once(f)

\* C5 amended: analysing a server file twice in succession leaves the
\* component map as analysing it once does, and the second analysis appends
\* to the log the same interactions that the first one appended.
C5_Amended ==
  \A f \in ServerFileUniverse :
     /\ Twice(f).components = Once(f).components
     /\ Twice(f).interactions =
          Once(f).interactions
            \o SubSeq(Once(f).interactions, Len(interactions) + 1,
                      Len(Once(f).interactions))

\* a server file has been analysed, and analysing that same file again is
\* about to change the log
C5_Witness ==
  /\ pc = "server"
  /\ si > 1
  /\ Has(components, <<serverFiles[si - 1].className>>)
  /\ Len(Once(serverFiles[si - 1]).interactions) > Len(interactions)

\* ------------------------------------------------------------ server scans
\* ServerStep has taken place
ServerScan == pc = "server" /\ si' = si + 1

Marked(f) == f.controllerMatch \/ f.serviceMatch \/ f.gatewayMatch

TypedParams(f) ==
  IF f.constructorMatch THEN {k \in DOMAIN f.params : f.params[k].depMatch} ELSE {}

\* what the scan of the file serverFiles[si] did to the model
ScanEffect ==
  LET file == serverFiles[si]
      id   == <<file.className>>
      new  == SubSeq(interactions', Len(interactions) + 1, Len(interactions'))
      injects == {k \in DOMAIN new : new[k].label = <<"inyecta">>}
      uses    == {k \in DOMAIN new : new[k].label = <<"usa">> /\ new[k].to = PrismaId}
  IN  IF ~file.classNameMatch
      THEN components' = components /\ interactions' = interactions
      ELSE /\ SubSeq(interactions', 1, Len(interactions)) = interactions
           /\ Marked(file) =>
                /\ Has(components', id)
                /\ Get(components', id).type =
                     IF file.controllerMatch THEN "Controller"
                     ELSE IF file.serviceMatch THEN "Service" ELSE "Gateway"
           /\ ~Marked(file) => components' = components
           /\ \A k \in DOMAIN new : new[k].from = id
           /\ Cardinality(injects) = Cardinality(TypedParams(file))
           /\ \A t \in TypedParams(file) :
                \E k \in injects : new[k].to = <<file.params[t].type>>
           /\ Cardinality(uses) = IF file.mentionsPrisma THEN 1 ELSE 0
           /\ Len(new) = Cardinality(injects) + Cardinality(uses)

\* the exported classes without a marker whose identifier no other server
\* file gives a component to
UnsuppliedClasses ==
  {<<serverFiles[a].className>> : a \in
     {a \in DOMAIN serverFiles :
        /\ serverFiles[a].classNameMatch
        /\ ~Marked(serverFiles[a])
        /\ ~\E b \in DOMAIN serverFiles :
              /\ b # a
              /\ serverFiles[b].classNameMatch
              /\ serverFiles[b].className = serverFiles[a].className
              /\ Marked(serverFiles[b])}}

EdgeFrom(id) == \E k \in EdgeLinesOf(mermaidCode) : mermaidCode[k].from = id

\* C10 as stated: the kind of an exported class is Controller, Service or
\* Gateway by the first marker present in that order; without a marker no
\* component is added and the 'inyecta' interactions (one per typed
\* constructor parameter) and the 'usa' interaction are still appended with
\* the class as source, and never show in the rendered text unless another
\* file gives that identifier a component; a file without an exported class
\* leaves map and log unchanged.
C10_AsStated ==
  [][ /\ ServerScan => ScanEffect
      /\ pc = "write" => \A id \in UnsuppliedClasses : ~EdgeFrom(id)
    ]_vars

\* C10 amended: as stated, except that the interactions of a class without a
\* marker also show in the rendered text when the class is named User or
\* Database, the identifiers addExternalComponents gives a component to.
C10_Amended ==
  [][ /\ ServerScan => ScanEffect
      /\ pc = "write" =>
           \A id \in UnsuppliedClasses \ {UserId, DatabaseId} : ~EdgeFrom(id)
    ]_vars

\* the text was rendered after a run over a class without markers whose
\* interactions stayed dangling although their target is a component
C10_Witness ==
  /\ pc = "write"
  /\ <<"OrdersService">> \in UnsuppliedClasses
  /\ \E i \in Range(interactions) :
       i.from = <<"OrdersService">> /\ Has(components, i.to)
  /\ ~EdgeFrom(<<"OrdersService">>)

====
